---- MODULE Spec2Model ----
(***************************************************************************)
(* Model of the two Maya plug-ins of this repository:                      *)
(*   - the tweenMachine command (tweenMachine.py) and the slider window    *)
(*     that drives it (tweenMachineUI.py);                                 *)
(*   - the Gerstner wave deformer node (gerstnerWaveDeformer.py).          *)
(*                                                                         *)
(* Key values and weights are Python floats in the source; here they are   *)
(* exact rationals <<numerator, denominator>> in lowest terms.             *)
(***************************************************************************)
EXTENDS Integers, Sequences, FiniteSets, TLC

VARIABLES
    curves,             \* the animation curves getAnimCurves finds, in batch order
    mSelEmpty,          \* om.MGlobal.getActiveSelectionList(mSel); mSel.isEmpty()
    currentTime,        \* omA.MAnimControl.currentTime()
    globalIn,           \* omA.MAnimControl.globalInTangentType()
    globalOut,          \* omA.MAnimControl.globalOutTangentType()
    mAnimCurveChangeCache, \* tweenMachinePlugin.mAnimCurveChangeCache (class attribute)
    commands,           \* the tweenMachinePlugin instances created so far, each with its self.weight
                        \* and its place in the host's undo queue
    sliderPressedBool,  \* TweenMainWindow.sliderPressedBool
    sliderReleasedBool, \* TweenMainWindow.sliderReleasedBool
    sliderValue,        \* TweenMainWindow.tweenSlider.value()
    label,              \* TweenMainWindow.pLabel2 text
    last,               \* what the last command did: its time, weight, curves before, per-curve report
    run,                \* the current run of consecutive tweens at one time
    waves,              \* the deformer's wave attributes: <<A, B, C>>, each direction, steepness, wavelength
    movementVal,        \* the Movement attribute
    envelopeVal,        \* the deformer's envelope
    inMesh,             \* the input geometry's points
    meshPoints,         \* the points of the geometry as the iterator holds them
    mPointArray_meshVert, \* the array deform collects the new positions in
    pc,                 \* where deform is: "idle", "loop", "done", "raised"
    calls               \* the gerstnerWave calls made for the last point: position and result of each

tweenVars == <<curves, mSelEmpty, currentTime, globalIn, globalOut,
               mAnimCurveChangeCache, commands, sliderPressedBool,
               sliderReleasedBool, sliderValue, label, last, run>>

waveVars == <<waves, movementVal, envelopeVal, inMesh, meshPoints,
              mPointArray_meshVert, pc, calls>>

-----------------------------------------------------------------------------
(* Bounds of the model *)

MaxTime == 3
MaxCommands == 2
MaxRedo == 1

Times == 0..MaxTime

-----------------------------------------------------------------------------
(* Exact rational arithmetic standing in for Python float arithmetic *)

Abs(x) == IF x < 0 THEN -x ELSE x

RECURSIVE GCD(_, _)
GCD(a, b) == IF b = 0 THEN a ELSE GCD(b, a % b)

Norm(n, d) ==
    LET g == GCD(Abs(n), Abs(d))
        s == IF d < 0 THEN -1 ELSE 1
    IN  <<(s * n) \div g, (s * d) \div g>>

Rat(n) == <<n, 1>>
RAdd(x, y) == Norm(x[1] * y[2] + y[1] * x[2], x[2] * y[2])
RSub(x, y) == Norm(x[1] * y[2] - y[1] * x[2], x[2] * y[2])
RMul(x, y) == Norm(x[1] * y[1], x[2] * y[2])
RDiv(x, y) == Norm(x[1] * y[2], x[2] * y[1])

-----------------------------------------------------------------------------
(* Animation curves: the part of MFnAnimCurve the command uses *)

kTangentFixed == "fixed"
TangentTypes == {"linear", "spline", kTangentFixed}

Key(t, v, i, o) == [time |-> t, value |-> Rat(v), inTangent |-> i, outTangent |-> o]

numKeys(keys) == Len(keys)

Dist(keys, i, T) == Abs(keys[i].time - T)

\* MFnAnimCurve.findClosest: the indices (1-based here) of the keys nearest to T.
\* When two keys are equally near, the host may return either.
ClosestSet(keys, T) ==
    {i \in 1..Len(keys) : \A j \in 1..Len(keys) : Dist(keys, i, T) <= Dist(keys, j, T)}

findClosest(keys, T, tie) ==
    LET S == ClosestSet(keys, T)
        lo == CHOOSE i \in S : \A j \in S : i <= j
        hi == CHOOSE i \in S : \A j \in S : i >= j
    IN  IF tie = "lo" THEN lo ELSE hi

\* MFnAnimCurve.addKey: the key goes in at its place in time order.
addKey(keys, k) ==
    LET n == Cardinality({i \in 1..Len(keys) : keys[i].time < k.time})
    IN  SubSeq(keys, 1, n) \o <<k>> \o SubSeq(keys, n + 1, Len(keys))

\* MFnAnimCurve.setValue
setValue(keys, i, v) == [keys EXCEPT ![i].value = v]

-----------------------------------------------------------------------------
(* tweenMachinePlugin.addKeyToAnimCurves, one curve of the loop.            *)
(* Key indices are 1-based here (0-based in the source): the first key is   *)
(* index 1 and the last is numKeys, so the source's closest_ind < numKeys-1 *)
(* reads closest_ind < numKeys and closest_ind > 0 reads closest_ind > 1.   *)

\* SelectBracket with the nearest pair of keys taken when the time lies outside
\* the keys, instead of the error.
SelectBracket_clamped(keys, closest_ind, currTime) ==
    LET closest_Time == keys[closest_ind].time
    IN  IF numKeys(keys) < 2
        THEN [ok |-> FALSE, prev_Key_Ind |-> 0, next_Key_Ind |-> 0]
        ELSE IF closest_Time < currTime /\ closest_ind < numKeys(keys)
        THEN [ok |-> TRUE, prev_Key_Ind |-> closest_ind, next_Key_Ind |-> closest_ind + 1]
        ELSE IF closest_Time > currTime /\ closest_ind > 1
        THEN [ok |-> TRUE, prev_Key_Ind |-> closest_ind - 1, next_Key_Ind |-> closest_ind]
        ELSE IF closest_ind = 1
        THEN [ok |-> TRUE, prev_Key_Ind |-> 1, next_Key_Ind |-> 2]
        ELSE [ok |-> TRUE, prev_Key_Ind |-> closest_ind - 1, next_Key_Ind |-> closest_ind]

\* Lines 152-161: choose the previous and next key around a time with no key.
SelectBracket(keys, closest_ind, currTime) ==
    LET closest_Time == keys[closest_ind].time
    IN  IF closest_Time < currTime /\ closest_ind < numKeys(keys)
        THEN [ok |-> TRUE, prev_Key_Ind |-> closest_ind, next_Key_Ind |-> closest_ind + 1]
        ELSE IF closest_Time > currTime /\ closest_ind > 1
        THEN [ok |-> TRUE, prev_Key_Ind |-> closest_ind - 1, next_Key_Ind |-> closest_ind]
        ELSE [ok |-> FALSE, prev_Key_Ind |-> 0, next_Key_Ind |-> 0]

\* NewKeyTangents with "and" for the source's "or".
NewKeyTangents_and(prevOut, nextIn, gIn, gOut) ==
    IF prevOut = kTangentFixed /\ nextIn = kTangentFixed
    THEN <<gIn, gOut>>
    ELSE <<prevOut, nextIn>>

\* Lines 164-170: tangent types of the new key, <<in, out>>.
NewKeyTangents(prevOut, nextIn, gIn, gOut) ==
    IF prevOut = kTangentFixed \/ nextIn = kTangentFixed
    THEN <<gIn, gOut>>
    ELSE <<prevOut, nextIn>>

\* NewKeyValue with the two weights exchanged.
NewKeyValue_swapped(prevValue, nextValue, weight) ==
    RAdd(RMul(prevValue, weight), RMul(nextValue, RSub(Rat(1), weight)))

\* Lines 173 and 181: the interpolated value.
NewKeyValue(prevValue, nextValue, weight) ==
    RAdd(RMul(prevValue, RSub(Rat(1), weight)), RMul(nextValue, weight))

\* NeighbourIndices with the key itself taken as its next key.
NeighbourIndices_self(closest_ind) == <<closest_ind - 1, closest_ind>>

\* Lines 179-182: a key exists at the current time at closest_ind. The source
\* reads value(closest_ind-1) and value(closest_ind+1) with no range check; the
\* host rejects an index outside 1..numKeys by raising.
NeighbourIndices(closest_ind) == <<closest_ind - 1, closest_ind + 1>>

UpdateExisting(keys, closest_ind, weight) ==
    LET nb == NeighbourIndices(closest_ind)
        bad == {nb[j] : j \in 1..2} \ (1..numKeys(keys))
    IN  IF bad # {}
        THEN [kind |-> "raised", keys |-> keys, closest_ind |-> closest_ind,
              prev_Key_Ind |-> nb[1], next_Key_Ind |-> nb[2],
              outOfRange |-> bad, added |-> <<>>]
        ELSE [kind |-> "updated",
              keys |-> setValue(keys, closest_ind,
                                NewKeyValue(keys[nb[1]].value, keys[nb[2]].value, weight)),
              closest_ind |-> closest_ind,
              prev_Key_Ind |-> nb[1], next_Key_Ind |-> nb[2],
              outOfRange |-> {}, added |-> <<>>]

\* Lines 150-176: no key exists at the current time.
InsertNew(keys, closest_ind, currTime, weight, gIn, gOut) ==
    LET b == SelectBracket(keys, closest_ind, currTime)
    IN  IF ~b.ok
        THEN [kind |-> "noBracket", keys |-> keys, closest_ind |-> closest_ind,
              prev_Key_Ind |-> 0, next_Key_Ind |-> 0,
              outOfRange |-> {}, added |-> <<>>]
        ELSE LET tg == NewKeyTangents(keys[b.prev_Key_Ind].outTangent,
                                      keys[b.next_Key_Ind].inTangent, gIn, gOut)
                 k == [time |-> currTime,
                       value |-> NewKeyValue(keys[b.prev_Key_Ind].value,
                                             keys[b.next_Key_Ind].value, weight),
                       inTangent |-> tg[1], outTangent |-> tg[2]]
             IN  [kind |-> "inserted", keys |-> addKey(keys, k),
                  closest_ind |-> closest_ind,
                  prev_Key_Ind |-> b.prev_Key_Ind, next_Key_Ind |-> b.next_Key_Ind,
                  outOfRange |-> {}, added |-> <<k>>]

Untouched(keys, kind) ==
    [kind |-> kind, keys |-> keys, closest_ind |-> 0, prev_Key_Ind |-> 0,
     next_Key_Ind |-> 0, outOfRange |-> {}, added |-> <<>>]

\* TweenCurve without the branch that updates an existing key.
TweenCurve_insertOnly(c, currTime, weight, tie, gIn, gOut) ==
    IF ~c.isTimeInput
    THEN Untouched(c.keys, "skipped")
    ELSE InsertNew(c.keys, findClosest(c.keys, currTime, tie), currTime, weight, gIn, gOut)

\* Lines 138-182: the body of the loop for one curve.
TweenCurve(c, currTime, weight, tie, gIn, gOut) ==
    IF ~c.isTimeInput
    THEN Untouched(c.keys, "skipped")
    ELSE LET closest_ind == findClosest(c.keys, currTime, tie)
         IN  IF c.keys[closest_ind].time # currTime
             THEN InsertNew(c.keys, closest_ind, currTime, weight, gIn, gOut)
             ELSE UpdateExisting(c.keys, closest_ind, weight)

\* EndsLoop with "continue" for the source's "break".
EndsLoop_continue(kind) == kind = "raised"

\* Line 161 (break) and an exception leaving the method: the loop ends here.
EndsLoop(kind) == kind \in {"noBracket", "raised"}

\* Lines 136-182: the loop over the curves, from curve i on. The result holds
\* the curves after the loop, one report per curve, and the changes given to
\* the change cache (line 176; setValue at line 182 is given no cache).
RECURSIVE addKeyToAnimCurves(_, _, _, _, _, _, _)
addKeyToAnimCurves(cs, i, currTime, weight, ties, gIn, gOut) ==
    IF i > Len(cs)
    THEN [curves |-> cs, report |-> <<>>, cached |-> <<>>]
    ELSE LET r == TweenCurve(cs[i], currTime, weight, ties[i], gIn, gOut)
         IN  IF EndsLoop(r.kind)
             THEN [curves |-> cs,
                   report |-> <<r>> \o [j \in 1..(Len(cs) - i) |->
                                            Untouched(cs[i + j].keys, "notReached")],
                   cached |-> <<>>]
             ELSE LET rest == addKeyToAnimCurves([cs EXCEPT ![i].keys = r.keys], i + 1,
                                                 currTime, weight, ties, gIn, gOut)
                  IN  [curves |-> rest.curves,
                       report |-> <<r>> \o rest.report,
                       cached |-> (IF r.kind = "inserted"
                                   THEN <<[curve |-> i, time |-> currTime]>>
                                   ELSE <<>>) \o rest.cached]

-----------------------------------------------------------------------------
(* The scenes the model starts from *)

\* Python's None: the empty tuple, so that it compares with rationals and flags.
None == <<>>

CurveA == [isTimeInput |-> TRUE,
           keys |-> <<Key(0, 0, "linear", kTangentFixed), Key(3, 12, "spline", "linear")>>]
CurveB == [isTimeInput |-> TRUE,
           keys |-> <<Key(2, 8, "spline", "linear"), Key(3, 0, "linear", "spline")>>]
CurveC == [isTimeInput |-> TRUE,
           keys |-> <<Key(0, 4, "spline", "linear"), Key(2, 0, kTangentFixed, "spline"),
                      Key(3, 8, "linear", "linear")>>]
CurveD == [isTimeInput |-> TRUE,
           keys |-> <<Key(0, 4, "linear", "spline"), Key(1, 0, "spline", "linear")>>]
CurveU == [isTimeInput |-> FALSE,
           keys |-> <<Key(0, 0, "linear", "linear"), Key(3, 4, "linear", "linear")>>]

Batches == {<<>>, <<CurveC, CurveB, CurveA>>, <<CurveU, CurveA, CurveD>>}

\* The same, and a selection in which every curve has its first key before and
\* its last key after the times 1 and 2, so that no curve ends the loop there.
UndoBatches == Batches \cup {<<CurveC, CurveA>>}

GlobalTangents == {<<"spline", "linear">>, <<kTangentFixed, "spline">>}

\* What a caller passes as the weight flag: a slider position, a value out of
\* range, or no flag at all.
FlagValues == {<<25>>, <<150>>, None}
SliderValues == {50, 100}

\* One run of redoIt: the time, the curves before and after.
NoExecution == [T |-> 0, pre |-> <<>>, post |-> <<>>]

\* What the last operation did. op and self tell which operation of which
\* instance it was. direct tells that it followed straight after the doIt of
\* the same instance (an undoIt) or after that doIt and its undoIt (a redoIt),
\* and earlier is then that doIt's run.
NoLast == [ran |-> FALSE, T |-> 0, weight |-> None, pre |-> <<>>, report |-> <<>>,
           error |-> "none", op |-> "none", self |-> 0, direct |-> FALSE,
           earlier |-> NoExecution]
NoRun == [n |-> 0, T |-> 0, pre |-> <<>>, before |-> <<>>, weight |-> None,
          prevWeight |-> None, reached |-> {}]

TweenInit ==
    /\ \/ mSelEmpty = TRUE /\ curves = <<>>
       \/ mSelEmpty = FALSE /\ curves \in Batches
    /\ currentTime = 0
    /\ \E g \in GlobalTangents : globalIn = g[1] /\ globalOut = g[2]
    /\ mAnimCurveChangeCache = <<>>
    /\ commands = <<>>
    /\ sliderPressedBool = FALSE
    /\ sliderReleasedBool = TRUE
    /\ sliderValue = 50
    /\ label = 50
    /\ last = NoLast
    /\ run = NoRun

-----------------------------------------------------------------------------
(* The command: doIt, redoIt, undoIt *)

Reached(report) ==
    {i \in 1..Len(report) : report[i].kind \notin {"notReached", "skipped"}}

ErrorOf(report) ==
    IF \E i \in 1..Len(report) : report[i].kind = "raised" THEN "raised"
    ELSE IF \E i \in 1..Len(report) : report[i].kind = "noBracket" THEN "noBracket"
    ELSE "none"

\* Lines 44-50 and commandCreator: a new instance. weight is self.weight, None
\* until argumentParser (lines 52-71) sets it from the flag. queue is the
\* instance's place in the host's undo queue: "new", "done" (can be undone),
\* "undone" (can be redone), "flushed" (undone and then dropped when a newer
\* command ran), "failed" (its doIt or redoIt raised, the host dropped it).
\* The other fields record what the instance did: the flag it was given, the
\* fraction each run of its redoIt used, the keys its latest run gave to the
\* change cache, and how often the host redid it.
Instance(flag) ==
    [weight |-> IF flag = None THEN None ELSE Rat(flag[1]),
     queue |-> "new",
     flag |-> flag,
     fractions |-> <<>>,
     added |-> {},
     redone |-> 0]

\* The host drops the commands that could be redone when a new command is done.
Flush(cmds) ==
    [k \in 1..Len(cmds) |->
        IF cmds[k].queue = "undone" THEN [cmds[k] EXCEPT !.queue = "flushed"] ELSE cmds[k]]

\* isUndoable (lines 214-215): a command that returned goes on the undo queue;
\* one that raised does not.
Queued(cmds, self, op, error) ==
    IF error = "raised"
    THEN [cmds EXCEPT ![self].queue = "failed"]
    ELSE [(IF op = "doIt" THEN Flush(cmds) ELSE cmds) EXCEPT ![self].queue = "done"]

\* Lines 185-211, run by the instance cmds[self]; op tells whether doIt called
\* it or the host's redo did.
redoIt(cmds, self, ties, op) ==
    LET w == RDiv(cmds[self].weight, Rat(100))
        res == IF mSelEmpty \/ Len(curves) = 0
               THEN [curves |-> curves, report |-> <<>>, cached |-> <<>>]
               ELSE addKeyToAnimCurves(curves, 1, currentTime, w, ties,
                                       globalIn, globalOut)
        error == IF mSelEmpty THEN "noSelection"
                 ELSE IF Len(curves) = 0 THEN "noAnimated"
                 ELSE ErrorOf(res.report)
        me == [cmds[self] EXCEPT
                  !.weight = w,
                  !.fractions = Append(@, w),
                  !.added = {res.cached[j] : j \in 1..Len(res.cached)}]
        follows == op = "redoIt" /\ last.op = "undoIt" /\ last.self = self /\ last.direct
        earlier == IF follows THEN last.earlier ELSE NoExecution
    IN  /\ commands' = Queued([cmds EXCEPT ![self] = me], self, op, error)
        /\ IF mSelEmpty \/ Len(curves) = 0
           THEN /\ last' = [NoLast EXCEPT !.T = currentTime, !.weight = w,
                                          !.error = error, !.op = op, !.self = self,
                                          !.direct = follows, !.earlier = earlier]
                /\ UNCHANGED <<curves, mAnimCurveChangeCache, run>>
           ELSE /\ curves' = res.curves
                /\ mAnimCurveChangeCache' = mAnimCurveChangeCache \o res.cached
                /\ last' = [ran |-> TRUE, T |-> currentTime, weight |-> w,
                            pre |-> curves, report |-> res.report,
                            error |-> error, op |-> op, self |-> self,
                            direct |-> follows, earlier |-> earlier]
                /\ run' = IF run.n = 0
                          THEN [n |-> 1, T |-> currentTime, pre |-> curves,
                                before |-> curves, weight |-> w,
                                prevWeight |-> None, reached |-> Reached(res.report)]
                          ELSE [run EXCEPT !.n = run.n + 1,
                                           !.before = curves,
                                           !.weight = w,
                                           !.prevWeight = run.weight,
                                           !.reached = run.reached \cap Reached(res.report)]

\* Lines 224-233, with argumentParser (lines 52-71), run by a new instance:
\* flag is the weight flag's value, or None when the flag is not given.
doIt(flag, ties) ==
    LET cmds == Append(commands, Instance(flag))
        self == Len(cmds)
    IN  IF flag # None /\ flag[1] <= 100 /\ flag[1] >= 0
        THEN redoIt(cmds, self, ties, "doIt")
        ELSE /\ commands' = Queued(cmds, self, "doIt", "weight")
             /\ last' = [NoLast EXCEPT !.error = "weight", !.op = "doIt", !.self = self]
             /\ UNCHANGED <<curves, mAnimCurveChangeCache, run>>

\* MAnimCurveChange.undoIt: every change the cache holds is taken back. The
\* cache holds the keys addKey was given it for (line 176); taking one back
\* removes the key at that time from that curve. The cache keeps its entries.
MAnimCurveChange_undoIt(cs, cache) ==
    [i \in 1..Len(cs) |->
        [cs[i] EXCEPT !.keys =
            SelectSeq(@, LAMBDA k : ~\E j \in 1..Len(cache) :
                                        cache[j].curve = i /\ cache[j].time = k.time)]]

\* Lines 218-221
undoIt == curves' = MAnimCurveChange_undoIt(curves, mAnimCurveChangeCache)

Ties == [1..Len(curves) -> {"lo", "hi"}]

\* maya.cmds.tweenMachine(weight=...) run from a script.
Command ==
    /\ Len(commands) < MaxCommands
    /\ \E flag \in FlagValues, ties \in Ties : doIt(flag, ties)
    /\ UNCHANGED <<mSelEmpty, currentTime, globalIn, globalOut, sliderPressedBool,
                   sliderReleasedBool, sliderValue, label>>
    /\ UNCHANGED waveVars

\* The host's undo: undoIt of the command done last.
Undo ==
    /\ \E self \in 1..Len(commands) :
        /\ commands[self].queue = "done"
        /\ \A k \in (self + 1)..Len(commands) : commands[k].queue # "done"
        /\ undoIt
        /\ commands' = [commands EXCEPT ![self].queue = "undone"]
        /\ LET direct == /\ last.op = "doIt"
                         /\ last.self = self
                         /\ commands[self].fractions # <<>>
           IN  last' = [NoLast EXCEPT
                           !.T = currentTime, !.pre = curves, !.op = "undoIt",
                           !.self = self, !.direct = direct,
                           !.earlier = IF direct
                                       THEN [T |-> last.T, pre |-> last.pre, post |-> curves]
                                       ELSE NoExecution]
    /\ run' = NoRun
    /\ UNCHANGED <<mSelEmpty, currentTime, globalIn, globalOut, mAnimCurveChangeCache,
                   sliderPressedBool, sliderReleasedBool, sliderValue, label>>
    /\ UNCHANGED waveVars

\* The host's redo: redoIt of the command undone last. An instance whose weight
\* is still None raises at line 190.
Redo ==
    /\ \E self \in 1..Len(commands) :
        /\ commands[self].queue = "undone"
        /\ \A k \in 1..(self - 1) : commands[k].queue # "undone"
        /\ commands[self].redone < MaxRedo
        /\ LET cmds == [commands EXCEPT ![self].redone = @ + 1]
           IN  IF cmds[self].weight = None
               THEN /\ commands' = Queued(cmds, self, "redoIt", "raised")
                    /\ last' = [NoLast EXCEPT !.T = currentTime, !.error = "typeError",
                                              !.op = "redoIt", !.self = self]
                    /\ UNCHANGED <<curves, mAnimCurveChangeCache, run>>
               ELSE \E ties \in Ties : redoIt(cmds, self, ties, "redoIt")
    /\ UNCHANGED <<mSelEmpty, currentTime, globalIn, globalOut, sliderPressedBool,
                   sliderReleasedBool, sliderValue, label>>
    /\ UNCHANGED waveVars

\* The user moves the time slider.
SetCurrentTime ==
    /\ \E t \in Times \ {currentTime} : currentTime' = t
    /\ run' = NoRun
    /\ UNCHANGED <<curves, mSelEmpty, globalIn, globalOut, mAnimCurveChangeCache,
                   commands, sliderPressedBool, sliderReleasedBool, sliderValue,
                   label, last>>
    /\ UNCHANGED waveVars

-----------------------------------------------------------------------------
(* TweenMainWindow *)

\* tweenMachineUI.py lines 85-89
valueChanged ==
    \E weightVal \in SliderValues \ {sliderValue} :
        /\ sliderValue' = weightVal
        /\ IF sliderPressedBool /\ ~sliderReleasedBool
           THEN /\ Len(commands) < MaxCommands
                /\ label' = weightVal
                /\ \E ties \in Ties : doIt(<<weightVal>>, ties)
           ELSE UNCHANGED <<label, curves, mAnimCurveChangeCache, commands, last, run>>
        /\ UNCHANGED <<mSelEmpty, currentTime, globalIn, globalOut, sliderPressedBool,
                       sliderReleasedBool>>
        /\ UNCHANGED waveVars

\* tweenMachineUI.py lines 92-94
sliderPressed ==
    /\ sliderPressedBool' = TRUE
    /\ sliderReleasedBool' = FALSE
    /\ UNCHANGED <<curves, mSelEmpty, currentTime, globalIn, globalOut,
                   mAnimCurveChangeCache, commands, sliderValue, label, last, run>>
    /\ UNCHANGED waveVars

\* tweenMachineUI.py lines 97-99
sliderReleased ==
    /\ sliderPressedBool' = FALSE
    /\ sliderReleasedBool' = TRUE
    /\ UNCHANGED <<curves, mSelEmpty, currentTime, globalIn, globalOut,
                   mAnimCurveChangeCache, commands, sliderValue, label, last, run>>
    /\ UNCHANGED waveVars

-----------------------------------------------------------------------------
(* Ripple, the Gerstner wave deformer.                                      *)
(* Floats are fixed-point numbers here: the integer n stands for n/SCALE.   *)
(* math.sin and math.cos are Bhaskara's rational approximation of the sine, *)
(* which is exact at 0, pi/6, pi/2 and pi and within 0.002 elsewhere.       *)

SCALE == 1000
PI == 3142
GRAVITY == 9800
MaxMovement == 2

FMul(x, y) == (x * y) \div SCALE
FDiv(x, y) == (x * SCALE) \div y

RECURSIVE SqrtSearch(_, _, _)
SqrtSearch(n, lo, hi) ==
    IF lo >= hi THEN lo
    ELSE LET mid == (lo + hi + 1) \div 2
         IN  IF mid * mid <= n THEN SqrtSearch(n, mid, hi) ELSE SqrtSearch(n, lo, mid - 1)

\* math.sqrt of a fixed-point number that is not negative
math_sqrt(x) == SqrtSearch(x * SCALE, 0, 46340)

\* sine of x in 0..PI
Bhaskara(x) ==
    LET y == x * (PI - x)
    IN  ((y \div 4) * SCALE) \div ((5 * PI * PI - 4 * y) \div 64)

math_sin(f) ==
    LET x == f % (2 * PI)
    IN  IF x <= PI THEN Bhaskara(x) ELSE 0 - Bhaskara(x - PI)

math_cos(f) == math_sin(f + PI \div 2)

Point(x, y, z) == [x |-> x, y |-> y, z |-> z]

\* MFloatVector.normal(): the unit vector, and the zero vector for the zero vector
normal(dx, dy) ==
    LET len == math_sqrt(FMul(dx, dx) + FMul(dy, dy))
    IN  IF len = 0 THEN <<0, 0>> ELSE <<FDiv(dx, len), FDiv(dy, len)>>

\* Line 68 with the position's height in place of its depth.
Projection_height(d, position) == FMul(d[1], position.x) + FMul(d[2], position.y)

\* Line 68: dotDirectionPositon
Projection(d, position) == FMul(d[1], position.x) + FMul(d[2], position.z)

\* Line 70 without the steepness.
Amplitude_unit(steepness, k) == FDiv(SCALE, k)

\* Line 70: a
Amplitude(steepness, k) == FDiv(steepness, k)

\* Lines 64-65 raise for a wavelength of 0 (division by zero) and for a negative
\* wavelength (math.sqrt of a negative number).
Raises(wavelength) == wavelength <= 0

\* Lines 63-86, for a wavelength that does not raise. wave is
\* <<direction x, direction y, steepness>>.
gerstnerWave(wave, wavelength, position, movement) ==
    LET steepness == wave[3]
        k == FDiv(2 * PI, wavelength)
        c == math_sqrt(FDiv(GRAVITY, k))
        d == normal(wave[1], wave[2])
        dotDirectionPositon == Projection(d, position)
        f == FMul(k, dotDirectionPositon - FMul(c, movement))
        a == Amplitude(steepness, k)
    IN  Point(FMul(d[1], FMul(a, math_cos(f))),
              FMul(a, math_sin(f)),
              FMul(d[2], FMul(a, math_cos(f))))

\* Lines 100-102
addToPosition(pointPosition, pointToAdd, evaluateVal) ==
    Point(pointPosition.x + FMul(pointToAdd.x, evaluateVal),
          pointPosition.y + FMul(pointToAdd.y, evaluateVal),
          pointPosition.z + FMul(pointToAdd.z, evaluateVal))

Call(w, position, movement) ==
    [position |-> position,
     result |-> gerstnerWave(w.wave, w.wavelength, position, movement)]

\* Lines 159-164 with every wave evaluated at the point the iterator gave.
deformPoint_atOriginal(position, ws, movement, envelope) ==
    LET cA == Call(ws[1], position, movement)
        p1 == addToPosition(position, cA.result, envelope)
        cB == Call(ws[2], position, movement)
        p2 == addToPosition(p1, cB.result, envelope)
        cC == Call(ws[3], position, movement)
        p3 == addToPosition(p2, cC.result, envelope)
    IN  [calls |-> <<cA, cB, cC>>, out |-> p3]

\* Lines 159-164: the three waves on one point, none of them raising.
deformPoint(position, ws, movement, envelope) ==
    LET cA == Call(ws[1], position, movement)
        p1 == addToPosition(position, cA.result, envelope)
        cB == Call(ws[2], p1, movement)
        p2 == addToPosition(p1, cB.result, envelope)
        cC == Call(ws[3], p2, movement)
        p3 == addToPosition(p2, cC.result, envelope)
    IN  [calls |-> <<cA, cB, cC>>, out |-> p3]

\* The calls made for a point before one of them raises.
RECURSIVE CallsBeforeRaise(_, _, _, _, _)
CallsBeforeRaise(position, ws, i, movement, envelope) ==
    IF i > 3 \/ Raises(ws[i].wavelength) THEN <<>>
    ELSE LET c == Call(ws[i], position, movement)
         IN  <<c>> \o CallsBeforeRaise(addToPosition(position, c.result, envelope),
                                       ws, i + 1, movement, envelope)

AnyRaises(ws) == \E i \in 1..3 : Raises(ws[i].wavelength)

Wave(dx, dy, steepness, wavelength) ==
    [wave |-> <<dx, dy, steepness>>, wavelength |-> wavelength]

\* The attributes' default (direction and steepness 0, wavelength 1) and values
\* within the attributes' ranges; and a wavelength of 0.
DefaultWave == Wave(0, 0, 0, SCALE)
Waves == {DefaultWave,
          Wave(SCALE, 0, 500, 4 * SCALE),
          Wave(0, SCALE, 500, SCALE),
          Wave(SCALE, SCALE, SCALE, 4 * SCALE),
          Wave(SCALE, SCALE, 0, 4 * SCALE),
          Wave(SCALE, 0, 0, SCALE),
          Wave(SCALE, 0, 500, 0)}

Movements == {m * SCALE : m \in 1..MaxMovement}
Envelopes == {0, 500, SCALE}
Meshes == {<<>>,
           <<Point(0, 0, 0)>>,
           <<Point(SCALE, 0, 2 * SCALE), Point(500, SCALE, 0)>>}

WaveIdle ==
    /\ waves = <<DefaultWave, DefaultWave, DefaultWave>>
    /\ movementVal = SCALE
    /\ envelopeVal = SCALE
    /\ inMesh = <<>>
    /\ meshPoints = <<>>
    /\ mPointArray_meshVert = <<>>
    /\ pc = "idle"
    /\ calls = <<>>

WaveInputs ==
    /\ waves \in Waves \X Waves \X Waves
    /\ movementVal \in Movements
    /\ envelopeVal \in Envelopes
    /\ inMesh \in Meshes
    /\ meshPoints = inMesh
    /\ mPointArray_meshVert = <<>>
    /\ pc = "idle"
    /\ calls = <<>>

TweenIdle ==
    /\ mSelEmpty = TRUE
    /\ curves = <<>>
    /\ currentTime = 0
    /\ globalIn = "spline"
    /\ globalOut = "spline"
    /\ mAnimCurveChangeCache = <<>>
    /\ commands = <<>>
    /\ sliderPressedBool = FALSE
    /\ sliderReleasedBool = TRUE
    /\ sliderValue = 50
    /\ label = 50
    /\ last = NoLast
    /\ run = NoRun

\* Lines 105-154: deform reads its inputs and creates the empty point array.
deformBegin ==
    /\ pc = "idle"
    /\ pc' = "loop"
    /\ mPointArray_meshVert' = <<>>
    /\ calls' = <<>>
    /\ UNCHANGED <<waves, movementVal, envelopeVal, inMesh, meshPoints>>
    /\ UNCHANGED tweenVars

\* Lines 157-168: one turn of the loop, no wave raising.
deformLoop ==
    /\ pc = "loop"
    /\ Len(mPointArray_meshVert) < Len(meshPoints)
    /\ ~AnyRaises(waves)
    /\ LET pointPosition == meshPoints[Len(mPointArray_meshVert) + 1]
           r == deformPoint(pointPosition, waves, movementVal, envelopeVal)
       IN  /\ mPointArray_meshVert' = Append(mPointArray_meshVert, r.out)
           /\ calls' = r.calls
    /\ UNCHANGED <<waves, movementVal, envelopeVal, inMesh, meshPoints, pc>>
    /\ UNCHANGED tweenVars

\* Lines 157-164: a turn of the loop in which gerstnerWave raises; the
\* exception leaves deform.
deformRaise ==
    /\ pc = "loop"
    /\ Len(mPointArray_meshVert) < Len(meshPoints)
    /\ AnyRaises(waves)
    /\ calls' = CallsBeforeRaise(meshPoints[Len(mPointArray_meshVert) + 1], waves, 1,
                                 movementVal, envelopeVal)
    /\ pc' = "raised"
    /\ UNCHANGED <<waves, movementVal, envelopeVal, inMesh, meshPoints,
                   mPointArray_meshVert>>
    /\ UNCHANGED tweenVars

\* Line 171: the loop is over, all positions are set at once.
setAllPositions ==
    /\ pc = "loop"
    /\ Len(mPointArray_meshVert) = Len(meshPoints)
    /\ meshPoints' = mPointArray_meshVert
    /\ pc' = "done"
    /\ UNCHANGED <<waves, movementVal, envelopeVal, inMesh, mPointArray_meshVert, calls>>
    /\ UNCHANGED tweenVars

\* The Movement attribute is set to another value: the node is evaluated anew
\* on the input geometry.
setMovement ==
    /\ pc \in {"done", "raised"}
    /\ \E m \in Movements \ {movementVal} : movementVal' = m
    /\ meshPoints' = inMesh
    /\ pc' = "idle"
    /\ UNCHANGED <<waves, envelopeVal, inMesh, mPointArray_meshVert, calls>>
    /\ UNCHANGED tweenVars

vars == <<tweenVars, waveVars>>

Init == TweenInit /\ WaveIdle

Next ==
    \/ Command
    \/ SetCurrentTime
    \/ valueChanged
    \/ sliderPressed
    \/ sliderReleased

Spec == Init /\ [][Next]_vars

\* The command run from a script, with the host's undo and redo.
UndoNext ==
    \/ Command
    \/ SetCurrentTime
    \/ Undo
    \/ Redo

UndoInit ==
    /\ \/ mSelEmpty = TRUE /\ curves = <<>>
       \/ mSelEmpty = FALSE /\ curves \in UndoBatches
    /\ currentTime = 0
    /\ globalIn = "spline"
    /\ globalOut = "linear"
    /\ mAnimCurveChangeCache = <<>>
    /\ commands = <<>>
    /\ sliderPressedBool = FALSE
    /\ sliderReleasedBool = TRUE
    /\ sliderValue = 50
    /\ label = 50
    /\ last = NoLast
    /\ run = NoRun
    /\ WaveIdle

UndoSpec == UndoInit /\ [][UndoNext]_vars

WaveNext ==
    \/ deformBegin
    \/ deformLoop
    \/ deformRaise
    \/ setAllPositions
    \/ setMovement

WaveInit == WaveInputs /\ TweenIdle

WaveSpec == WaveInit /\ [][WaveNext]_vars

-----------------------------------------------------------------------------
(* Vocabulary of the properties *)

HasKeyAt(keys, T) == \E j \in 1..Len(keys) : keys[j].time = T

IndexAt(keys, T) == CHOOSE j \in 1..Len(keys) : keys[j].time = T

StrictlyIncreasing(keys) ==
    \A j \in 1..(Len(keys) - 1) : keys[j].time < keys[j + 1].time

\* T has no key and lies strictly between the first key and the last.
Bracketed(keys, T) ==
    /\ Len(keys) >= 2
    /\ ~HasKeyAt(keys, T)
    /\ keys[1].time < T
    /\ T < keys[Len(keys)].time

\* T has no key and lies before the first key or after the last.
Outside(keys, T) ==
    /\ Len(keys) >= 1
    /\ ~HasKeyAt(keys, T)
    /\ (T < keys[1].time \/ T > keys[Len(keys)].time)

PrevOf(keys, T) ==
    CHOOSE p \in 1..(Len(keys) - 1) : keys[p].time < T /\ T < keys[p + 1].time

\* a + w*(b - a): the weighted mean a*(1-w) + b*w, written the other way.
Lerp(a, b, w) == RAdd(a, RMul(w, RSub(b, a)))

\* post is pre with one key more, at time T with value v, just after index p.
InsertedAfter(pre, post, p, T, v) ==
    /\ Len(post) = Len(pre) + 1
    /\ \A j \in 1..p : post[j] = pre[j]
    /\ post[p + 1].time = T
    /\ post[p + 1].value = v
    /\ \A j \in (p + 1)..Len(pre) : post[j + 1] = pre[j]

\* The curves the last command's loop got to, time-input ones only.
Handled ==
    IF last.ran
    THEN {i \in 1..Len(last.report) : last.report[i].kind \notin {"notReached", "skipped"}}
    ELSE {}

TypeOK ==
    /\ \A i \in 1..Len(curves) : StrictlyIncreasing(curves[i].keys)
    /\ Len(commands) <= MaxCommands
    /\ sliderPressedBool = ~sliderReleasedBool
    /\ currentTime \in Times

\* C1: on a time-input curve with strictly increasing key times, no key at the
\* target time T and T strictly inside the key range, the tween inserts exactly
\* one key at T; the chosen previous and next keys are adjacent and strictly
\* bracket T, whichever nearest key findClosest returned; and the new value is
\* value[p]*(1-w) + value[p+1]*w for the one p with time[p] < T < time[p+1].
C1_InsertInterpolates ==
    \A i \in Handled :
        LET pre == last.pre[i].keys
            post == curves[i].keys
            r == last.report[i]
        IN  (StrictlyIncreasing(pre) /\ Bracketed(pre, last.T)) =>
                LET p == PrevOf(pre, last.T)
                IN  /\ r.kind = "inserted"
                    /\ r.prev_Key_Ind = p
                    /\ r.next_Key_Ind = p + 1
                    /\ r.closest_ind \in {p, p + 1}
                    /\ pre[r.prev_Key_Ind].time < last.T
                    /\ last.T < pre[r.next_Key_Ind].time
                    /\ InsertedAfter(pre, post, p, last.T,
                                     Lerp(pre[p].value, pre[p + 1].value, last.weight))
                    /\ Cardinality({j \in 1..Len(post) : post[j].time = last.T}) = 1

\* C1 witness: a key was inserted where the two bracketing keys were equally
\* near and findClosest returned the later one, with a weight that tells the
\* two neighbours apart.
C1_Witness ==
    \E i \in Handled :
        LET pre == last.pre[i].keys
            r == last.report[i]
        IN  /\ r.kind = "inserted"
            /\ r.closest_ind = r.next_Key_Ind
            /\ last.T - pre[r.prev_Key_Ind].time = pre[r.next_Key_Ind].time - last.T
            /\ pre[r.prev_Key_Ind].value # pre[r.next_Key_Ind].value
            /\ last.weight = <<1, 4>>

\* C2: when the target time T has no key and lies before the first key or after
\* the last key of a curve the loop gets to, the tween reports the missing
\* bracketing key error and leaves that curve as it was: no key inserted, no
\* value changed.
C2_OutsideIsError ==
    \A i \in Handled :
        Outside(last.pre[i].keys, last.T) =>
            /\ last.report[i].kind = "noBracket"
            /\ last.error = "noBracket"
            /\ curves[i] = last.pre[i]

\* C2 witness: a curve with the target time after its last key was handled, in
\* a batch where an earlier curve was changed.
C2_Witness ==
    \E i \in Handled :
        /\ Outside(last.pre[i].keys, last.T)
        /\ last.T > last.pre[i].keys[Len(last.pre[i].keys)].time
        /\ \E j \in 1..(i - 1) : last.report[j].kind = "inserted"

\* C3: when a key exists at the target time at the first or the last index of
\* the curve, the tween reports an error without changing any value of the
\* curve and without reading a key index outside the curve.
C3_BoundaryIsCleanError ==
    \A i \in Handled :
        LET pre == last.pre[i].keys
        IN  (HasKeyAt(pre, last.T) /\ IndexAt(pre, last.T) \in {1, Len(pre)}) =>
                /\ last.report[i].kind \notin {"updated", "inserted"}
                /\ curves[i] = last.pre[i]
                /\ last.report[i].outOfRange = {}

\* C4: when a key exists at the target time at an interior index i, the tween
\* sets that key's value to value[i-1]*(1-w) + value[i+1]*w and changes nothing
\* else: same key count, same key times, same tangents, same other values.
C4_UpdateInterior ==
    \A i \in Handled :
        LET pre == last.pre[i].keys
            post == curves[i].keys
        IN  (HasKeyAt(pre, last.T) /\ IndexAt(pre, last.T) \notin {1, Len(pre)}) =>
                LET x == IndexAt(pre, last.T)
                IN  /\ last.report[i].kind = "updated"
                    /\ Len(post) = Len(pre)
                    /\ post[x].value = Lerp(pre[x - 1].value, pre[x + 1].value, last.weight)
                    /\ \A j \in 1..Len(pre) :
                           /\ post[j].time = pre[j].time
                           /\ post[j].inTangent = pre[j].inTangent
                           /\ post[j].outTangent = pre[j].outTangent
                           /\ j # x => post[j].value = pre[j].value

\* C4 witness: an interior key was given a value different from the one it had.
C4_Witness ==
    \E i \in Handled :
        LET pre == last.pre[i].keys
        IN  /\ HasKeyAt(pre, last.T)
            /\ last.report[i].kind = "updated"
            /\ curves[i].keys[IndexAt(pre, last.T)].value # pre[IndexAt(pre, last.T)].value
            /\ pre[IndexAt(pre, last.T) + 1].value # pre[IndexAt(pre, last.T)].value

\* C5: a newly inserted key takes the previous key's out-tangent type as its
\* in-tangent and the next key's in-tangent type as its out-tangent, unless one
\* of those two is "fixed"; then both are the host's global in and out tangent
\* types. So the new key is "fixed" on a side only through the global type.
C5_InsertedTangents ==
    \A i \in Handled :
        last.report[i].kind = "inserted" =>
            LET pre == last.pre[i].keys
                r == last.report[i]
                k == curves[i].keys[IndexAt(curves[i].keys, last.T)]
                po == pre[r.prev_Key_Ind].outTangent
                ni == pre[r.next_Key_Ind].inTangent
                override == po = kTangentFixed \/ ni = kTangentFixed
            IN  /\ override => (k.inTangent = globalIn /\ k.outTangent = globalOut)
                /\ ~override => (k.inTangent = po /\ k.outTangent = ni)
                /\ k.inTangent = kTangentFixed => (override /\ globalIn = kTangentFixed)
                /\ k.outTangent = kTangentFixed => (override /\ globalOut = kTangentFixed)

\* C5 witness: a key was inserted after a previous key whose out-tangent is
\* "fixed" and before a next key whose in-tangent is not, and it got the global
\* types, which differ from both neighbours' types.
C5_Witness ==
    \E i \in Handled :
        /\ last.report[i].kind = "inserted"
        /\ LET pre == last.pre[i].keys
               r == last.report[i]
               k == curves[i].keys[IndexAt(curves[i].keys, last.T)]
           IN  /\ pre[r.prev_Key_Ind].outTangent = kTangentFixed
               /\ pre[r.next_Key_Ind].inTangent # kTangentFixed
               /\ k.inTangent = globalIn
               /\ k.outTangent = globalOut
               /\ k.outTangent # pre[r.next_Key_Ind].inTangent

\* The loop cannot go past a time-input curve that has the target time outside
\* its keys, or at its first or last key.
Fails(c, T) ==
    /\ c.isTimeInput
    /\ \/ Outside(c.keys, T)
       \/ HasKeyAt(c.keys, T) /\ IndexAt(c.keys, T) \in {1, Len(c.keys)}

\* What one curve the loop passes looks like afterwards.
Tweened(c, d, T, w) ==
    IF ~c.isTimeInput THEN d = c
    ELSE IF HasKeyAt(c.keys, T)
    THEN LET x == IndexAt(c.keys, T)
         IN  /\ Len(d.keys) = Len(c.keys)
             /\ d.keys[x].value = Lerp(c.keys[x - 1].value, c.keys[x + 1].value, w)
    ELSE LET q == PrevOf(c.keys, T)
         IN  InsertedAfter(c.keys, d.keys, q, T,
                           Lerp(c.keys[q].value, c.keys[q + 1].value, w))

\* C6: the curves are processed in order and the batch halts at the first curve
\* with no valid bracketing pair: that curve and every curve after it are left
\* as they were, and every curve before it keeps the key the command inserted
\* or updated.
C6_HaltsAtFirstError ==
    last.ran =>
        \A f \in 1..Len(last.pre) :
            (/\ Fails(last.pre[f], last.T)
             /\ Outside(last.pre[f].keys, last.T)
             /\ \A j \in 1..(f - 1) : ~Fails(last.pre[j], last.T)) =>
                /\ last.error = "noBracket"
                /\ \A j \in f..Len(last.pre) : curves[j] = last.pre[j]
                /\ \A j \in 1..(f - 1) : Tweened(last.pre[j], curves[j], last.T, last.weight)

\* C6 witness: the batch halted at a curve between a curve that got a new key
\* and a curve that would have got one.
C6_Witness ==
    /\ last.ran
    /\ \E f \in 2..(Len(last.pre) - 1) :
        /\ Outside(last.pre[f].keys, last.T)
        /\ last.report[f].kind = "noBracket"
        /\ last.report[f - 1].kind = "inserted"
        /\ curves[f - 1] # last.pre[f - 1]
        /\ last.pre[f + 1].isTimeInput
        /\ Bracketed(last.pre[f + 1].keys, last.T)
        /\ curves[f + 1] = last.pre[f + 1]

\* C7: after one or more tweens in a row at the same time T, a curve the loop
\* got to each time, which had T strictly between two keys before the first of
\* them, holds exactly one key more than then, at T, valued by the weight of the
\* last tween on the two keys that bracketed T originally; and a tween with the
\* weight of the one before it leaves the curve as that one left it.
C7_Idempotent ==
    run.n >= 1 =>
        \A i \in run.reached :
            LET pre == run.pre[i].keys
                post == curves[i].keys
            IN  (run.pre[i].isTimeInput /\ Bracketed(pre, run.T)) =>
                    LET p == PrevOf(pre, run.T)
                    IN  /\ InsertedAfter(pre, post, p, run.T,
                                         Lerp(pre[p].value, pre[p + 1].value, run.weight))
                        /\ Cardinality({j \in 1..Len(post) : post[j].time = run.T}) = 1
                        /\ (run.n >= 2 /\ run.prevWeight = run.weight) =>
                               curves[i] = run.before[i]

\* C7 witness: two tweens in a row at one time with different weights, the
\* second changing the value of the key the first inserted.
C7_Witness ==
    /\ run.n = 2
    /\ run.prevWeight # run.weight
    /\ \E i \in run.reached :
        /\ run.pre[i].isTimeInput
        /\ Bracketed(run.pre[i].keys, run.T)
        /\ curves[i] # run.before[i]
        /\ Len(curves[i].keys) = Len(run.before[i].keys)

\* C7 witness of the repeated case: two tweens in a row at one time with the
\* same weight.
C7_WitnessRepeat ==
    /\ run.n = 2
    /\ run.prevWeight = run.weight
    /\ \E i \in run.reached :
        /\ run.pre[i].isTimeInput
        /\ Bracketed(run.pre[i].keys, run.T)
        /\ curves[i] = run.before[i]

-----------------------------------------------------------------------------
(* Vocabulary of the deformer's properties *)

Origin == Point(0, 0, 0)

\* base + displacement * weight, componentwise
Plus(base, displacement, weight) ==
    [x |-> base.x + (displacement.x * weight) \div SCALE,
     y |-> base.y + (displacement.y * weight) \div SCALE,
     z |-> base.z + (displacement.z * weight) \div SCALE]

AllSteepnessZero == \A i \in 1..3 : waves[i].wave[3] = 0

\* deform has made its three calls for a point: the last one it took.
PointDone == pc \in {"loop", "done"} /\ Len(calls) = 3

\* C8: with the steepness of all three waves 0 and every wavelength > 0, for
\* any movement, envelope and directions, each call of gerstnerWave returns the
\* zero displacement and every point deform collects and writes is the input
\* point.
C8_ZeroSteepnessIsIdentity ==
    (AllSteepnessZero /\ ~AnyRaises(waves)) =>
        /\ \A i \in 1..Len(calls) : calls[i].result = Origin
        /\ \A j \in 1..Len(mPointArray_meshVert) : mPointArray_meshVert[j] = inMesh[j]
        /\ meshPoints = inMesh

\* C8 witness: deform has finished on a mesh of two points with three waves of
\* steepness 0, not all of one direction or one wavelength, and an envelope
\* that is not 0.
C8_Witness ==
    /\ pc = "done"
    /\ AllSteepnessZero
    /\ Len(inMesh) = 2
    /\ Len(calls) = 3
    /\ envelopeVal # 0
    /\ waves[1].wave[1] # 0
    /\ waves[1].wavelength # waves[2].wavelength
    /\ meshPoints = inMesh

\* C9: deform folds the three waves left to right over a running point. Wave A
\* is evaluated at the point the iterator gave, wave B at that point displaced
\* by A's result times the envelope, wave C at the point displaced by A and B,
\* and the point collected for the mesh is the third accumulation.
C9_LeftToRightFold ==
    PointDone =>
        LET n == Len(mPointArray_meshVert)
        IN  /\ calls[1].position = inMesh[n]
            /\ calls[2].position = Plus(calls[1].position, calls[1].result, envelopeVal)
            /\ calls[3].position = Plus(calls[2].position, calls[2].result, envelopeVal)
            /\ mPointArray_meshVert[n] = Plus(calls[3].position, calls[3].result, envelopeVal)
            /\ \A i \in 1..3 :
                   calls[i].result = gerstnerWave(waves[i].wave, waves[i].wavelength,
                                                  calls[i].position, movementVal)
            /\ pc = "done" => meshPoints[n] = mPointArray_meshVert[n]

\* C9 witness: deform has finished, and for its last point each wave was
\* evaluated at a position different from the one before.
C9_Witness ==
    /\ pc = "done"
    /\ Len(calls) = 3
    /\ calls[2].position # calls[1].position
    /\ calls[3].position # calls[2].position
    /\ calls[3].position # calls[1].position
    /\ meshPoints[Len(meshPoints)] # calls[3].position

\* Wave B's direction, and how far wave A moved the point along it.
DirectionB == normal(waves[2].wave[1], waves[2].wave[2])

ShiftAlongB ==
    (DirectionB[1] * calls[2].position.x) \div SCALE
    + (DirectionB[2] * calls[2].position.z) \div SCALE
    - (DirectionB[1] * calls[1].position.x) \div SCALE
    - (DirectionB[2] * calls[1].position.z) \div SCALE

\* Wave B's displacement at the point the iterator gave, before wave A.
WaveBAtOriginal ==
    gerstnerWave(waves[2].wave, waves[2].wavelength, calls[1].position, movementVal)

\* C10 as stated: whenever wave A's displacement of a point is not zero, wave
\* B's displacement at the point displaced by A differs from wave B's
\* displacement at the original point.
C10_AlwaysDiffers ==
    PointDone => (calls[1].result # Origin => calls[2].result # WaveBAtOriginal)

\* C10 amended: wave B's displacement at the point displaced by A differs from
\* its displacement at the original point exactly when B's steepness is not 0
\* and A's displacement, scaled by the envelope, moves the point along B's
\* direction by other than a whole number of B's wavelengths.
C10_DiffersExactlyWhenShifted ==
    PointDone =>
        (calls[2].result # WaveBAtOriginal
            <=> (waves[2].wave[3] # 0 /\ ShiftAlongB % waves[2].wavelength # 0))

\* C10 witness: wave A displaced the point and wave B's displacement differs
\* from the one at the original point.
C10_Witness ==
    /\ PointDone
    /\ calls[1].result # Origin
    /\ calls[2].result # WaveBAtOriginal

-----------------------------------------------------------------------------
(* The deform call as a whole *)

\* deform has returned, or an exception has left it.
DeformEnded == pc \in {"done", "raised"}

\* The mesh deform was given, every point moved by the three waves.
RECURSIVE Transformed(_)
Transformed(mesh) ==
    IF mesh = <<>> THEN <<>>
    ELSE <<deformPoint(Head(mesh), waves, movementVal, envelopeVal).out>>
             \o Transformed(Tail(mesh))

\* C11: a deform call has no partial success. If any of the three waves has a
\* wavelength <= 0, the call fails with an error, whatever the mesh (an empty
\* one included) and whichever wave is invalid, and no point result is ever
\* collected or written; otherwise every point of the mesh is transformed.
C11_NoPartialSuccess ==
    /\ AnyRaises(waves) =>
           /\ pc # "done"
           /\ mPointArray_meshVert = <<>>
           /\ meshPoints = inMesh
    /\ (DeformEnded /\ ~AnyRaises(waves)) =>
           /\ pc = "done"
           /\ meshPoints = Transformed(inMesh)

-----------------------------------------------------------------------------
(* Vocabulary of the properties of undo and redo *)

\* The instance was given a weight flag that doIt accepts.
ValidFlag(c) ==
    /\ commands[c].flag # None
    /\ commands[c].flag[1] >= 0
    /\ commands[c].flag[1] <= 100

\* The fraction the weight flag of the instance stands for.
FlagFraction(c) == RDiv(Rat(commands[c].flag[1]), Rat(100))

\* The last operation was the host's redo of instance c, straight after its
\* doIt and undoIt, and it found the time and the curves its doIt had found.
RedoneAsFirst(c) ==
    /\ last.op = "redoIt"
    /\ last.self = c
    /\ last.direct
    /\ last.T = last.earlier.T
    /\ last.pre = last.earlier.pre

\* C12: an instance given a weight flag p in [0,100] uses the fraction p/100 on
\* every run of its redoIt, the first one through doIt and each redo after an
\* undo; and a redo that finds the curves as doIt found them leaves them as
\* doIt left them.
C12_SameFractionOnRedo ==
    \A c \in 1..Len(commands) :
        ValidFlag(c) =>
            /\ \A k \in 1..Len(commands[c].fractions) :
                   commands[c].fractions[k] = FlagFraction(c)
            /\ RedoneAsFirst(c) => curves = last.earlier.post

\* The curves hold the same keys: as many, at the same times, with the same
\* values.
SameKeys(cs, ds) ==
    /\ Len(cs) = Len(ds)
    /\ \A i \in 1..Len(cs) :
        /\ Len(cs[i].keys) = Len(ds[i].keys)
        /\ \A j \in 1..Len(cs[i].keys) :
            /\ cs[i].keys[j].time = ds[i].keys[j].time
            /\ cs[i].keys[j].value = ds[i].keys[j].value

\* The last operation was the undoIt of an instance straight after its doIt,
\* and that doIt accepted the weight and ran redoIt.
UndoneAfterDoIt ==
    /\ last.op = "undoIt"
    /\ last.direct

\* C13: every change a run of the command makes to a curve, a key inserted or
\* the value of an existing key updated, is given to the command's change
\* cache; and undoIt straight after doIt leaves every curve with the keys it
\* had before doIt: as many, at the same times, with the same values.
C13_UndoRestores ==
    /\ last.ran =>
           \A i \in 1..Len(last.report) :
               last.report[i].kind \in {"inserted", "updated"} =>
                   [curve |-> i, time |-> last.T] \in commands[last.self].added
    /\ UndoneAfterDoIt => SameKeys(curves, last.earlier.pre)

\* The keys the last undoIt took away: the curve and the time of each.
Removed ==
    {e \in [curve : 1..Len(last.pre), time : Times] :
        /\ HasKeyAt(last.pre[e.curve].keys, e.time)
        /\ ~HasKeyAt(curves[e.curve].keys, e.time)}

\* The instances other than c that are done and not undone.
OthersDone(c) ==
    {d \in 1..Len(commands) : d # c /\ commands[d].queue = "done"}

\* C14: undoIt of an instance takes back only the changes that instance
\* recorded. It removes no key but the ones the instance inserted, and the keys
\* inserted by the other commands that are still done stay in place: after
\* commands C1 and C2 inserted a key each, undoing C2 leaves C1's key.
C14_UndoRevertsOwnOnly ==
    last.op = "undoIt" =>
        /\ Removed \subseteq commands[last.self].added
        /\ \A d \in OthersDone(last.self) :
               \A a \in commands[d].added : HasKeyAt(curves[a.curve].keys, a.time)

====
